---------------------------- MODULE Spec2Model ----------------------------
(***************************************************************************)
(* The animation viewer of source/main.c: a frame sequencer that blits     *)
(* precomputed 16-bit frames to the mode-3 frame buffer, one main-loop     *)
(* iteration per vertical blank, with button A showing color bars and      *)
(* button B restarting the animation.                                      *)
(***************************************************************************)
EXTENDS Integers, Sequences, FiniteSets, TLC

(***************************************************************************)
(* Bounds of the model.                                                    *)
(***************************************************************************)
\* frame stores of 0..MaxFrames frames are explored
MaxFrames == 3
\* every duration of the table is drawn from 0..MaxDur
MaxDur == 2
\* rows of the frame buffer that are modelled (every loop of the program
\* treats all rows alike; the row offset y * 240 is kept)
ScreenRows == 2

(***************************************************************************)
(* Program constants.                                                      *)
(***************************************************************************)
ScreenWidth == 240
ScreenHeight == 160
U16 == 65536

Pixels == ScreenWidth * ScreenRows
Positions == 0 .. (Pixels - 1)

RGB16(r, g, b) == r + (g * 32) + (b * 1024)
RED == RGB16(31, 0, 0)
GREEN == RGB16(0, 31, 0)
BLUE == RGB16(0, 0, 31)
BLACK == RGB16(0, 0, 0)

KEY_A == "A"
KEY_B == "B"
Buttons == {KEY_A, KEY_B}

\* What a read outside an array may return (the C standard leaves it open).
JunkWords == {0, U16 - 1}

(***************************************************************************)
(* The frame store of animation.h: the pixel data of each frame.  The      *)
(* frames differ from each other, from black and from the color bars.      *)
(***************************************************************************)
poisson_frames ==
    [f \in 0 .. (MaxFrames - 1) |->
        [i \in Positions |-> ((f + 1) * 4099 + i) % 32768]]

\* The frame store of the end-to-end scenario: three frames lasting 2, 3 and 1 ticks.
ScenarioDurations == [f \in 0 .. 2 |-> <<2, 3, 1>>[f + 1]]

\* The frame stores explored: every table over 0..MaxDur, and the scenario's.
FrameStores ==
    UNION { { <<n, d>> : d \in [0 .. (n - 1) -> 0 .. MaxDur] } : n \in 0 .. MaxFrames } \cup
    { <<3, ScenarioDurations>> }

VARIABLES
    poisson_frame_count,  \* number of frames of the store
    poisson_durations,    \* duration table, indexed 0 .. frame_count-1
    currentFrame,         \* u16 currentFrame
    frameTimer,           \* u16 frameTimer
    playingAnimation,     \* bool playingAnimation
    videoBuffer,          \* the mode-3 frame buffer, indexed by y*240+x
    keysHeld,             \* key levels seen by the last scanKeys()
    keys,                 \* main's local `keys` in the last iteration
    writes,               \* pixel stores done by the last iteration
    frameReads,           \* indices of poisson_frames read by the last iteration
    durReads,             \* indices of poisson_durations read by the last iteration
    draws,                \* arguments of the drawFrame calls of the last iteration
    fault,                \* some array read so far was out of bounds
    startFrame,           \* history: frame that began with frameTimer = 0
    run,                  \* history: edge-free ticks since startFrame began, or -1
    sinceRestart,         \* history: edge-free ticks since frame 0 began, or -1
    atPause,              \* history: <<currentFrame, frameTimer>> before the pausing tick
    barEdges,             \* history: KEY_A edges since the last KEY_B edge (0, 1, 2 = more)
    prev                  \* history: <<currentFrame, frameTimer, playingAnimation>>
                          \* before the last iteration, <<>> before the first

store == <<poisson_frame_count, poisson_durations>>
machine == <<currentFrame, frameTimer, playingAnimation, videoBuffer>>
observed == <<keysHeld, keys, writes, frameReads, durReads, draws, fault>>
history == <<startFrame, run, sinceRestart, atPause, barEdges, prev>>
vars == <<store, machine, observed, history>>

(***************************************************************************)
(* The machine state the functions of main.c work on, as a record.         *)
(***************************************************************************)
Machine(cf, ft, pl, vb, flt) ==
    [currentFrame |-> cf, frameTimer |-> ft, playingAnimation |-> pl,
     videoBuffer |-> vb, writes |-> 0, frameReads |-> {}, durReads |-> {},
     draws |-> <<>>, fault |-> flt]

\* poisson_frames[frameIndex]: in bounds the frame, otherwise whatever lies there
FrameData(frameIndex, junk) ==
    IF frameIndex < poisson_frame_count
    THEN poisson_frames[frameIndex]
    ELSE [i \in Positions |-> junk]

\* poisson_durations[index]: in bounds the duration, otherwise whatever lies there
DurationAt(index, junk) ==
    IF index < poisson_frame_count THEN poisson_durations[index] ELSE junk

\* drawFrame with the bounds check off by one (frameIndex > poisson_frame_count)
drawFrame_OffByOne(m, frameIndex, junk) ==
    IF frameIndex > poisson_frame_count
    THEN [m EXCEPT !.draws = Append(@, frameIndex)]
    ELSE LET frameData == FrameData(frameIndex, junk)
         IN  [m EXCEPT !.draws = Append(@, frameIndex),
                       !.videoBuffer = [i \in Positions |-> frameData[i]],
                       !.writes = @ + Pixels,
                       !.frameReads = @ \cup {frameIndex},
                       !.fault = @ \/ (frameIndex >= poisson_frame_count)]

\* void drawFrame(u16 frameIndex)
drawFrame(m, frameIndex, junk) ==
    IF frameIndex >= poisson_frame_count
    THEN [m EXCEPT !.draws = Append(@, frameIndex)]
    ELSE LET frameData == FrameData(frameIndex, junk)
         IN  [m EXCEPT !.draws = Append(@, frameIndex),
                       !.videoBuffer = [i \in Positions |-> frameData[i]],
                       !.writes = @ + Pixels,
                       !.frameReads = @ \cup {frameIndex},
                       !.fault = @ \/ (frameIndex >= poisson_frame_count)]

\* the first band one column too wide (x <= 80)
BarPixel_OffByOne(x) ==
    IF x <= 80 THEN RED ELSE IF x < 160 THEN GREEN ELSE BLUE

\* the color bars drawn by the KEY_A branch, pixel by pixel
BarPixel(x) ==
    IF x < 80 THEN RED ELSE IF x < 160 THEN GREEN ELSE BLUE

ColorBars ==
    [pos \in Positions |-> BarPixel(pos % ScreenWidth)]

\* the KEY_A branch really toggling the mode, as its comment words it
PressA_Toggle(m) ==
    [m EXCEPT !.playingAnimation = ~m.playingAnimation,
              !.videoBuffer = [pos \in Positions |-> ColorBars[pos]],
              !.writes = @ + Pixels]

\* the KEY_A branch also clearing the frame timer
PressA_ResetTimer(m) ==
    [m EXCEPT !.playingAnimation = FALSE,
              !.frameTimer = 0,
              !.videoBuffer = [pos \in Positions |-> ColorBars[pos]],
              !.writes = @ + Pixels]

\* if (keys & KEY_A) { ... }
PressA(m) ==
    [m EXCEPT !.playingAnimation = FALSE,
              !.videoBuffer = [pos \in Positions |-> ColorBars[pos]],
              !.writes = @ + Pixels]

\* the KEY_B branch without the redraw of frame 0
PressB_NoDraw(m, junk) ==
    [m EXCEPT !.playingAnimation = TRUE, !.currentFrame = 0, !.frameTimer = 0]

\* the KEY_B branch without frameTimer = 0
PressB_KeepTimer(m, junk) ==
    drawFrame([m EXCEPT !.playingAnimation = TRUE, !.currentFrame = 0], 0, junk)

\* if (keys & KEY_B) { ... }
PressB(m, junk) ==
    drawFrame([m EXCEPT !.playingAnimation = TRUE,
                        !.currentFrame = 0,
                        !.frameTimer = 0],
              0, junk)

\* the wrap-around test written currentFrame > poisson_frame_count
AdvanceFrame_LateWrap(m, junk) ==
    LET next == (m.currentFrame + 1) % U16
        wrapped == IF next > poisson_frame_count THEN 0 ELSE next
    IN  drawFrame([m EXCEPT !.frameTimer = 0, !.currentFrame = wrapped],
                  wrapped, junk)

\* the wrap-around taken one frame early (currentFrame >= poisson_frame_count - 1)
AdvanceFrame_WrapEarly(m, junk) ==
    LET next == (m.currentFrame + 1) % U16
        wrapped == IF next >= poisson_frame_count - 1 THEN 0 ELSE next
    IN  drawFrame([m EXCEPT !.frameTimer = 0, !.currentFrame = wrapped],
                  wrapped, junk)

\* the "time to advance" branch of updateAnimation
AdvanceFrame(m, junk) ==
    LET next == (m.currentFrame + 1) % U16
        wrapped == IF next >= poisson_frame_count THEN 0 ELSE next
    IN  drawFrame([m EXCEPT !.frameTimer = 0, !.currentFrame = wrapped],
                  wrapped, junk)

\* updateAnimation advancing one tick late (frameTimer > duration)
updateAnimation_LateAdvance(m, junk) ==
    IF poisson_frame_count <= 1
    THEN m
    ELSE LET timer == (m.frameTimer + 1) % U16
             m1 == [m EXCEPT !.frameTimer = timer,
                             !.durReads = @ \cup {m.currentFrame},
                             !.fault = @ \/ (m.currentFrame >= poisson_frame_count)]
         IN  IF timer > DurationAt(m.currentFrame, junk)
             THEN AdvanceFrame(m1, junk)
             ELSE m1

\* updateAnimation returning early only for an empty store (poisson_frame_count < 1)
updateAnimation_SingleFrame(m, junk) ==
    IF poisson_frame_count < 1
    THEN m
    ELSE LET timer == (m.frameTimer + 1) % U16
             m1 == [m EXCEPT !.frameTimer = timer,
                             !.durReads = @ \cup {m.currentFrame},
                             !.fault = @ \/ (m.currentFrame >= poisson_frame_count)]
         IN  IF timer >= DurationAt(m.currentFrame, junk)
             THEN AdvanceFrame(m1, junk)
             ELSE m1

\* updateAnimation advancing only when frameTimer equals the duration
updateAnimation_ExactMatch(m, junk) ==
    IF poisson_frame_count <= 1
    THEN m
    ELSE LET timer == (m.frameTimer + 1) % U16
             m1 == [m EXCEPT !.frameTimer = timer,
                             !.durReads = @ \cup {m.currentFrame},
                             !.fault = @ \/ (m.currentFrame >= poisson_frame_count)]
         IN  IF timer = DurationAt(m.currentFrame, junk)
             THEN AdvanceFrame(m1, junk)
             ELSE m1

\* void updateAnimation(void)
updateAnimation(m, junk) ==
    IF poisson_frame_count <= 1
    THEN m
    ELSE LET timer == (m.frameTimer + 1) % U16
             m1 == [m EXCEPT !.frameTimer = timer,
                             !.durReads = @ \cup {m.currentFrame},
                             !.fault = @ \/ (m.currentFrame >= poisson_frame_count)]
         IN  IF timer >= DurationAt(m.currentFrame, junk)
             THEN AdvanceFrame(m1, junk)
             ELSE m1

\* updateAnimation called whatever playingAnimation is
UpdateAlways(m, junk) == updateAnimation(m, junk)

\* if (playingAnimation) updateAnimation();
UpdateIfPlaying(m, junk) ==
    IF m.playingAnimation THEN updateAnimation(m, junk) ELSE m

\* the key levels taken for the edges (keysHeld() in place of keysDown())
keysDown_Level(held, pressed) == pressed

\* keysDown() after scanKeys(): the buttons down now that were up at the last scan
keysDown(held, pressed) == pressed \ held

\* the loop body with the KEY_B branch ahead of the KEY_A branch
LoopBody_BarsLast(m, k, junk) ==
    LET m1 == IF KEY_B \in k THEN PressB(m, junk) ELSE m
        m2 == IF KEY_A \in k THEN PressA(m1) ELSE m1
    IN  UpdateIfPlaying(m2, junk)

\* one iteration of the main loop, on the machine record
LoopBody(m, k, junk) ==
    LET m1 == IF KEY_A \in k THEN PressA(m) ELSE m
        m2 == IF KEY_B \in k THEN PressB(m1, junk) ELSE m1
    IN  UpdateIfPlaying(m2, junk)

(***************************************************************************)
(* History of the run, kept for the properties that span several ticks.    *)
(***************************************************************************)
AtFrameStart(m) == m.playingAnimation /\ m.frameTimer = 0

NextRun(m, k) ==
    IF AtFrameStart(m) THEN 0
    ELSE IF k = {} /\ run >= 0 /\ m.playingAnimation THEN run + 1
    ELSE -1

NextStartFrame(m) ==
    IF AtFrameStart(m) THEN m.currentFrame ELSE startFrame

NextSinceRestart(m, k) ==
    IF AtFrameStart(m) /\ m.currentFrame = 0 THEN 0
    ELSE IF k = {} /\ sinceRestart >= 0 /\ m.playingAnimation THEN sinceRestart + 1
    ELSE -1

NextAtPause(m) ==
    IF m.playingAnimation THEN <<>>
    ELSE IF playingAnimation THEN <<currentFrame, frameTimer>>
    ELSE atPause

NextBarEdges(k) ==
    IF KEY_B \in k THEN 0
    ELSE IF KEY_A \in k THEN (IF barEdges >= 1 THEN 2 ELSE 1)
    ELSE barEdges

(***************************************************************************)
(* The state when the main loop is entered: globals initialised, screen    *)
(* cleared to black, drawFrame(0) done.                                    *)
(***************************************************************************)
InitWith(stores) ==
    /\ \E fs \in stores :
         /\ poisson_frame_count = fs[1]
         /\ poisson_durations = fs[2]
    /\ \E junk \in JunkWords :
         LET m == drawFrame(Machine(0, 0, TRUE, [i \in Positions |-> BLACK], FALSE),
                            0, junk)
         IN  /\ currentFrame = m.currentFrame
             /\ frameTimer = m.frameTimer
             /\ playingAnimation = m.playingAnimation
             /\ videoBuffer = m.videoBuffer
             /\ writes = m.writes
             /\ frameReads = m.frameReads
             /\ durReads = m.durReads
             /\ draws = m.draws
             /\ fault = m.fault
    /\ keysHeld = {}
    /\ keys = {}
    /\ startFrame = 0
    /\ run = 0
    /\ sinceRestart = 0
    /\ atPause = <<>>
    /\ barEdges = 0
    /\ prev = <<>>

Init == InitWith(FrameStores)

(***************************************************************************)
(* One iteration of while (1): VBlankIntrWait, scanKeys, keysDown, the two *)
(* button branches, updateAnimation.  `pressed` are the buttons down at    *)
(* the scan.                                                               *)
(***************************************************************************)
Tick(pressed, junk) ==
    LET k == keysDown(keysHeld, pressed)
    IN  \E m \in {LoopBody(Machine(currentFrame, frameTimer, playingAnimation,
                                   videoBuffer, fault), k, junk)} :
        /\ keysHeld' = pressed
        /\ keys' = k
        /\ currentFrame' = m.currentFrame
        /\ frameTimer' = m.frameTimer
        /\ playingAnimation' = m.playingAnimation
        /\ videoBuffer' = m.videoBuffer
        /\ writes' = m.writes
        /\ frameReads' = m.frameReads
        /\ durReads' = m.durReads
        /\ draws' = m.draws
        /\ fault' = m.fault
        /\ startFrame' = NextStartFrame(m)
        /\ run' = NextRun(m, k)
        /\ sinceRestart' = NextSinceRestart(m, k)
        /\ atPause' = NextAtPause(m)
        /\ barEdges' = NextBarEdges(k)
        /\ prev' = <<currentFrame, frameTimer, playingAnimation>>
        /\ UNCHANGED store

\* An array is read outside its bounds in this iteration only at an index
\* currentFrame >= poisson_frame_count; only then does the junk value matter.
JunkChoices ==
    IF currentFrame >= poisson_frame_count THEN JunkWords ELSE {0}

Next == \E pressed \in SUBSET Buttons, junk \in JunkChoices : Tick(pressed, junk)

Spec == Init /\ [][Next]_vars

(***************************************************************************)
(* The main loop with the vertical blank arriving over and over, on the    *)
(* stores that have at least two frames and only positive durations.       *)
(* VBlankIntrWait returns at every vertical blank, so iterations keep      *)
(* occurring.  An iteration that changes the state is possible in every    *)
(* state (one that samples a changed button level changes keysHeld), so    *)
(* <<Next>>_vars is always enabled and weak fairness of Next is the same   *)
(* as infinitely many such iterations.                                     *)
(***************************************************************************)
LiveStores ==
    { fs \in FrameStores :
        fs[1] >= 2 /\ \A f \in DOMAIN fs[2] : fs[2][f] >= 1 }

LiveInit == InitWith(LiveStores)

TicksKeepOccurring == []<><<Next>>_vars

LiveSpec == LiveInit /\ [][Next]_vars /\ TicksKeepOccurring

(***************************************************************************)
(* The main loop with one more frame store, whose first frame lasts the    *)
(* longest a 16-bit duration allows.  In that store the buttons are        *)
(* pressed only in the first and the last ticks of the long hold.          *)
(***************************************************************************)
WideDurations == [f \in 0 .. 1 |-> IF f = 0 THEN U16 - 1 ELSE 1]

WideStores == FrameStores \cup { <<2, WideDurations>> }

WideInit == InitWith(WideStores)

WidePresses ==
    IF poisson_durations = WideDurations /\ frameTimer \in 2 .. (U16 - 4)
    THEN { {} }
    ELSE SUBSET Buttons

WideNext == \E pressed \in WidePresses, junk \in JunkChoices : Tick(pressed, junk)

WideSpec == WideInit /\ [][WideNext]_vars

(***************************************************************************)
(* drawFrame on its own: a call drawFrame(frameIndex) with any index, in   *)
(* bounds or not, on whatever the frame buffer holds.                      *)
(***************************************************************************)
DrawIndices == 0 .. (MaxFrames + 1)

DrawCall(frameIndex, junk) ==
    \E m \in {drawFrame(Machine(currentFrame, frameTimer, playingAnimation,
                                videoBuffer, fault), frameIndex, junk)} :
        /\ videoBuffer' = m.videoBuffer
        /\ writes' = m.writes
        /\ frameReads' = m.frameReads
        /\ durReads' = m.durReads
        /\ draws' = m.draws
        /\ fault' = m.fault
        /\ UNCHANGED <<store, currentFrame, frameTimer, playingAnimation,
                       keysHeld, keys, history>>

DrawNext ==
    \E frameIndex \in DrawIndices, junk \in JunkWords : DrawCall(frameIndex, junk)

DrawSpec == Init /\ [][DrawNext]_vars


(***************************************************************************)
(* Properties.                                                             *)
(***************************************************************************)
\* frame i of the store is what the frame buffer holds
FrameShown(i) == i < poisson_frame_count /\ videoBuffer = poisson_frames[i]
FrameShownNext(i) == i < poisson_frame_count /\ videoBuffer' = poisson_frames[i]

\* a KEY_A / KEY_B edge is sampled by the iteration this step takes
BarsEdge == KEY_A \in keys'
ResumeEdge == KEY_B \in keys'

\* the store keeps the data invariant of the frame store: every duration > 0
PositiveDurations == \A f \in DOMAIN poisson_durations : poisson_durations[f] >= 1

\* the frames of the scenario after ticks 1..6
ScenarioShown == <<0, 1, 1, 1, 2, 0>>

C1_HoldStep ==
    (poisson_frame_count >= 2 /\ run >= 0 /\ keys' = {}
        /\ poisson_durations[startFrame] >= 1)
    => LET d == poisson_durations[startFrame]
           n == run + 1
       IN  /\ n <= d
           /\ n < d => currentFrame' = startFrame
           /\ n = d => /\ currentFrame' = (startFrame + 1) % poisson_frame_count
                       /\ frameTimer' = 0
                       /\ FrameShownNext(currentFrame')

C1_ScenarioStep ==
    (poisson_frame_count = 3 /\ poisson_durations = ScenarioDurations
        /\ sinceRestart \in 0 .. 5 /\ keys' = {})
    => /\ currentFrame' = ScenarioShown[sinceRestart + 1]
       /\ FrameShownNext(currentFrame')

\* C1: with frame_count >= 2 and duration(i) >= 1, from Playing at frame i with
\* elapsed_ticks = 0 and no button edges, the frame stays i for the first
\* duration(i)-1 ticks and after exactly duration(i) ticks it is (i+1) mod
\* frame_count, elapsed_ticks is 0 and that frame is on the surface; with
\* durations [2,3,1] the frames after ticks 1..6 are 0,1,1,1,2,0.
C1_AdvanceAfterDuration == [][C1_HoldStep /\ C1_ScenarioStep]_vars

\* the scenario after its fifth tick: frame 2 has just replaced frame 1
C1_Witness ==
    /\ poisson_frame_count = 3 /\ poisson_durations = ScenarioDurations
    /\ sinceRestart = 5 /\ run = 0 /\ startFrame = 2
    /\ currentFrame = 2 /\ frameTimer = 0 /\ FrameShown(2)

\* what an iteration that samples KEY_B ends with: the restart at frame 0
\* followed by that iteration's own updateAnimation
RestartOutcome ==
    /\ playingAnimation'
    /\ IF poisson_frame_count <= 1
       THEN currentFrame' = 0 /\ frameTimer' = 0
       ELSE IF poisson_durations[0] > 1
            THEN currentFrame' = 0 /\ frameTimer' = 1
            ELSE currentFrame' = 1 /\ frameTimer' = 0
    /\ poisson_frame_count >= 1 => FrameShownNext(currentFrame')

\* C2 as stated: a tick sampling "resume" while Paused-ShowingBars ends with
\* mode Playing, current_frame_index = 0, elapsed_ticks = 0 and frame 0 on the
\* surface (read for a store that has a frame 0 and only positive durations).
C2_Original ==
    [][(PositiveDurations /\ ~playingAnimation /\ ResumeEdge)
        => /\ playingAnimation' /\ currentFrame' = 0 /\ frameTimer' = 0
           /\ poisson_frame_count >= 1 => FrameShownNext(0)]_vars

\* C2 amended: a tick sampling "resume" while Paused-ShowingBars ends with mode
\* Playing and the animation restarted at frame 0 and then advanced by the same
\* tick's update: index 0 and elapsed 0 for frame_count <= 1 (the bars stay on
\* the surface when the store is empty); for frame_count >= 2 index 0, elapsed 1
\* and frame 0 shown if duration(0) > 1, else index 1, elapsed 0, frame 1 shown.
C2_ResumeFromPause ==
    [][(~playingAnimation /\ ResumeEdge)
        => /\ RestartOutcome
           /\ poisson_frame_count = 0 => videoBuffer' = ColorBars]_vars

\* a pause frozen away from frame 0 was just left by KEY_B, and the tick counted
C2_Witness ==
    /\ prev # <<>> /\ ~prev[3] /\ prev[1] >= 1
    /\ KEY_B \in keys /\ playingAnimation
    /\ poisson_frame_count >= 2 /\ currentFrame = 0 /\ frameTimer = 1
    /\ FrameShown(0)

\* C3 as stated: a tick sampling "resume" while Playing at frame 0 with
\* elapsed_ticks = 0 leaves (mode, current_frame_index, elapsed_ticks) unchanged
\* and frame 0 on the surface (read for a store that has a frame 0 and only
\* positive durations).
C3_Original ==
    [][(PositiveDurations /\ playingAnimation /\ currentFrame = 0
            /\ frameTimer = 0 /\ ResumeEdge)
        => /\ playingAnimation' /\ currentFrame' = 0 /\ frameTimer' = 0
           /\ poisson_frame_count >= 1 => FrameShownNext(0)]_vars

\* C3 amended: such a tick leaves the playback state unchanged and frame 0 shown
\* only for frame_count = 1 (for an empty store the state is unchanged and no
\* frame is drawn); for frame_count >= 2 the same tick's update also runs:
\* elapsed_ticks = 1 with frame 0 shown if duration(0) > 1, else index 1,
\* elapsed 0 and frame 1 shown.
C3_RestartWhilePlaying ==
    [][(playingAnimation /\ currentFrame = 0 /\ frameTimer = 0 /\ ResumeEdge)
        => /\ RestartOutcome
           /\ poisson_frame_count = 0
                => videoBuffer' = (IF BarsEdge THEN ColorBars ELSE videoBuffer)]_vars

\* KEY_A and KEY_B were sampled together at frame 0 with the timer at 0: the
\* bars were drawn and frame 0 drawn over them, and the tick counted
C3_Witness ==
    /\ prev = <<0, 0, TRUE>> /\ keys = {KEY_A, KEY_B}
    /\ playingAnimation /\ poisson_frame_count >= 2
    /\ currentFrame = 0 /\ frameTimer = 1 /\ FrameShown(0)

\* C4: a tick sampling only "toggle-bars" while Playing ends Paused-ShowingBars
\* with the color bars on the surface and current_frame_index and elapsed_ticks
\* as they were before the tick.
C4_PauseKeepsAnimationState ==
    [][(playingAnimation /\ keys' = {KEY_A})
        => /\ ~playingAnimation'
           /\ videoBuffer' = ColorBars
           /\ currentFrame' = currentFrame
           /\ frameTimer' = frameTimer]_vars

\* the pause was just entered in the middle of a frame's hold
C4_Witness ==
    /\ prev # <<>> /\ prev[3] /\ keys = {KEY_A} /\ ~playingAnimation
    /\ frameTimer >= 1 /\ currentFrame >= 1

\* C5: while Paused-ShowingBars, current_frame_index and elapsed_ticks are the
\* values they had when the pause began, the surface shows the color bars and
\* the last tick rendered no frame.
C5_FrozenWhilePaused ==
    ~playingAnimation
    => /\ <<currentFrame, frameTimer>> = atPause
       /\ videoBuffer = ColorBars
       /\ draws = <<>> /\ frameReads = {}

\* a pause that has lasted over an edge-free tick, frozen in the middle of a hold
C5_Witness ==
    /\ ~playingAnimation /\ prev # <<>> /\ ~prev[3] /\ keys = {}
    /\ atPause = <<1, 1>>

PlainUpdate(cf, ft) ==
    IF ft + 1 >= poisson_durations[cf]
    THEN <<(cf + 1) % poisson_frame_count, 0>>
    ELSE <<cf, ft + 1>>

C7_HeldStep ==
    /\ \A b \in Buttons : (b \in keysHeld /\ b \in keysHeld') => b \notin keys'
    /\ (playingAnimation /\ poisson_frame_count >= 2
          /\ KEY_B \in keysHeld /\ KEY_B \in keysHeld'
          /\ ~(KEY_A \in keysHeld' /\ KEY_A \notin keysHeld))
       => /\ playingAnimation'
          /\ <<currentFrame', frameTimer'>> = PlainUpdate(currentFrame, frameTimer)
    /\ (KEY_A \in keysHeld /\ KEY_A \in keysHeld')
       => /\ playingAnimation => playingAnimation'
          /\ (KEY_B \in keysHeld' /\ KEY_B \notin keysHeld) => playingAnimation'

\* C7: a button held over consecutive ticks acts only in the first of them:
\* holding "resume" while Playing lets elapsed_ticks and the frame advance as
\* with no button, and holding "toggle-bars" does not pause again after a
\* "resume" edge.
C7_EdgeTriggered == [][C7_HeldStep]_vars

\* KEY_B has been held over the last tick and the animation has left frame 0
C7_Witness ==
    /\ KEY_B \in keysHeld /\ keys = {} /\ playingAnimation
    /\ prev # <<>> /\ prev[3] /\ currentFrame >= 1

C8_NoOpStep ==
    (draws' # <<>> /\ ~BarsEdge
        /\ \A j \in DOMAIN draws' : draws'[j] >= poisson_frame_count)
    => /\ videoBuffer' = videoBuffer
       /\ writes' = 0
       /\ frameReads' = {}
       /\ ~fault'

\* C8: drawFrame(i) with i >= frame_count writes no pixel, reads no frame data
\* and faults on nothing; with an empty store that is every call, the initial
\* one included, so the surface stays as it was cleared.
C8_OutOfRangeDrawIsNoOp ==
    /\ [][C8_NoOpStep]_vars
    /\ [](poisson_frame_count = 0
            => videoBuffer = [i \in Positions |-> BLACK] /\ ~fault)

\* drawFrame(frame_count) was called on a surface holding the last frame
C8_Witness ==
    /\ poisson_frame_count >= 2
    /\ draws = <<poisson_frame_count>> /\ writes = 0
    /\ FrameShown(poisson_frame_count - 1)

\* C9: for frame_count <= 1, current_frame_index and elapsed_ticks are 0 after
\* any sequence of ticks and button edges.
C9_NoAdvanceBelowTwoFrames ==
    poisson_frame_count <= 1 => currentFrame = 0 /\ frameTimer = 0

\* a single-frame store after an edge-free tick in Playing
C9_Witness ==
    /\ poisson_frame_count = 1 /\ poisson_durations[0] = MaxDur
    /\ prev = <<0, 0, TRUE>> /\ keys = {} /\ playingAnimation

\* C10 as stated: current_frame_index is in [0, frame_count) in every reachable
\* state, for every frame_count >= 0.
C10_Original == currentFrame \in 0 .. (poisson_frame_count - 1)

\* C10 amended: for every frame_count >= 1 current_frame_index is in
\* [0, frame_count); for the empty store, where that range is empty, it is 0.
C10_FrameIndexInRange ==
    /\ poisson_frame_count >= 1 => currentFrame \in 0 .. (poisson_frame_count - 1)
    /\ poisson_frame_count = 0 => currentFrame = 0

\* the animation has just wrapped from the last frame to frame 0
C10_Witness ==
    /\ poisson_frame_count >= 2 /\ prev # <<>>
    /\ prev[1] = poisson_frame_count - 1 /\ prev[3]
    /\ keys = {} /\ currentFrame = 0 /\ playingAnimation

\* the 5-bit channels of a packed 16-bit pixel
RedOf(p) == p % 32
GreenOf(p) == (p \div 32) % 32
BlueOf(p) == (p \div 1024) % 32
ChannelsOf(p) == <<RedOf(p), GreenOf(p), BlueOf(p)>>

\* the color the claim gives column x
BandColor(x) ==
    IF x < 80 THEN <<31, 0, 0>> ELSE IF x < 160 THEN <<0, 31, 0>> ELSE <<0, 0, 31>>

\* the color the KEY_A branch stores at pos = y * 240 + x, over the whole
\* 240 x 160 screen: pos is a position of its own and the color is the band's
C11_FullScreenBands ==
    \A y \in 0 .. (ScreenHeight - 1) : \A x \in 0 .. (ScreenWidth - 1) :
        LET pos == y * ScreenWidth + x
        IN  /\ pos \in 0 .. (ScreenWidth * ScreenHeight - 1)
            /\ pos % ScreenWidth = x /\ pos \div ScreenWidth = y
            /\ ChannelsOf(BarPixel(x)) = BandColor(x)

\* C11: after the color-bar render every pixel (x, y) of the surface is pure
\* red for x < 80, pure green for 80 <= x < 160 and pure blue for x >= 160,
\* each pixel having been written (none keeps its previous value).
C11_ColorBarsPixelExact ==
    /\ C11_FullScreenBands
    /\ (KEY_A \in keys /\ KEY_B \notin keys)
       => /\ writes = Pixels
          /\ \A y \in 0 .. (ScreenRows - 1) : \A x \in 0 .. (ScreenWidth - 1) :
                ChannelsOf(videoBuffer[y * ScreenWidth + x]) = BandColor(x)

\* the bars have just been drawn over a frame of the animation
C11_Witness ==
    /\ keys = {KEY_A} /\ ~playingAnimation
    /\ prev # <<>> /\ prev[3] /\ poisson_frame_count >= 1
    /\ videoBuffer[0] = RED /\ videoBuffer[80] = GREEN /\ videoBuffer[160] = BLUE
    /\ videoBuffer[Pixels - 1] = BLUE

\* C12: with frame_count >= 2, in Playing with no button edge, a current frame
\* i of duration 0 is left on the very next tick: current_frame_index becomes
\* (i+1) mod frame_count and elapsed_ticks 0.
C12_ZeroDurationAdvancesEveryTick ==
    [][(poisson_frame_count >= 2 /\ playingAnimation /\ keys' = {}
          /\ poisson_durations[currentFrame] = 0)
        => /\ currentFrame' = (currentFrame + 1) % poisson_frame_count
           /\ frameTimer' = 0
           /\ playingAnimation']_vars

\* an edge-free tick has just left a frame of duration 0
C12_Witness ==
    /\ poisson_frame_count >= 2 /\ prev # <<>> /\ prev[3] /\ keys = {}
    /\ poisson_durations[prev[1]] = 0
    /\ currentFrame = (prev[1] + 1) % poisson_frame_count
    /\ currentFrame # prev[1] /\ frameTimer = 0

\* C13: every read of the duration table and of the frame array uses an index
\* below frame_count, for every store; no run reads outside either array.
C13_ReadsInBounds ==
    /\ ~fault
    /\ \A i \in frameReads \cup durReads : i \in 0 .. (poisson_frame_count - 1)

\* the tick that wraps: the duration of the last frame and the pixels of
\* frame 0 were read
C13_Witness ==
    /\ poisson_frame_count >= 2
    /\ durReads = {poisson_frame_count - 1} /\ frameReads = {0}
    /\ currentFrame = 0 /\ ~fault

\* C14: for frame_count >= 1, before the first tick and at the end of every
\* tick the surface is frame current_frame_index when Playing and the color
\* bars when Paused-ShowingBars.
C14_SurfaceAgreesWithState ==
    poisson_frame_count >= 1
    => IF playingAnimation
       THEN videoBuffer = poisson_frames[currentFrame]
       ELSE videoBuffer = ColorBars

\* an edge-free tick has just advanced the animation past frame 0, and the
\* new frame was drawn
C14_Witness ==
    /\ prev # <<>> /\ prev[3] /\ playingAnimation
    /\ KEY_B \notin keys /\ sinceRestart >= 1 /\ run = 0
    /\ currentFrame >= 1 /\ FrameShown(currentFrame)
    /\ writes = Pixels

\* what the iteration of this step would have ended with had only KEY_B been
\* sampled (no array is read out of bounds in it, so the junk word is idle)
OnlyResume ==
    LoopBody(Machine(currentFrame, frameTimer, playingAnimation, videoBuffer,
                     fault), {KEY_B}, 0)

C15_SamePlayback ==
    /\ playingAnimation' = OnlyResume.playingAnimation
    /\ currentFrame' = OnlyResume.currentFrame
    /\ frameTimer' = OnlyResume.frameTimer
    /\ playingAnimation'

\* C15 as stated: a tick sampling both edges ends in the playback state and
\* with the surface of a tick sampling only "resume" from the same state.
C15_Original ==
    [][keys' = {KEY_A, KEY_B}
        => C15_SamePlayback /\ videoBuffer' = OnlyResume.videoBuffer]_vars

\* C15 amended: a tick sampling both edges ends in the playback state of a tick
\* sampling only "resume" from the same state (Playing, restarted from frame
\* 0), and for frame_count >= 1 with the same surface, the bars overwritten;
\* for the empty store no frame is drawn and the bars stay on the surface.
C15_ResumeWins ==
    [][keys' = {KEY_A, KEY_B}
        => /\ C15_SamePlayback
           /\ poisson_frame_count >= 1 => videoBuffer' = OnlyResume.videoBuffer
           /\ poisson_frame_count = 0 => videoBuffer' = ColorBars]_vars

\* both edges were sampled away from frame 0: the bars were drawn and a frame
\* drawn over them
C15_Witness ==
    /\ keys = {KEY_A, KEY_B} /\ playingAnimation
    /\ prev # <<>> /\ prev[1] >= 1
    /\ poisson_frame_count >= 2 /\ writes >= 2 * Pixels
    /\ FrameShown(currentFrame)

\* C16: for frame_count >= 2 and durations in [1, 65535], at the end of every
\* tick elapsed_ticks < duration(current_frame_index); so incrementing the
\* 16-bit counter never wraps it, and no frame is held for more ticks than its
\* duration.
C16_TimerBelowDuration ==
    (poisson_frame_count >= 2 /\ PositiveDurations)
    => /\ frameTimer < poisson_durations[currentFrame]
       /\ frameTimer + 1 < U16
       /\ run >= 0 => run < poisson_durations[startFrame]

\* the hold of 65535 ticks under way, past what eight bits would count
C16_Witness ==
    /\ poisson_frame_count = 2 /\ poisson_durations = WideDurations
    /\ currentFrame = 0 /\ frameTimer = 300 /\ run = 300
    /\ playingAnimation /\ FrameShown(0)

\* Playing, and the last iteration sampled no button edge
Quiet == playingAnimation /\ keys = {}

\* frame i, if the store has at least two frames with positive durations and
\* i is one of them, is the current frame and on the surface
CurrentAndShown(i) ==
    (poisson_frame_count >= 2 /\ PositiveDurations /\ i < poisson_frame_count)
    => currentFrame = i /\ FrameShown(i)

\* an edge-free Playing tick keeps the frame or moves to its cyclic successor
C17_CyclicStep ==
    (poisson_frame_count >= 2 /\ PositiveDurations /\ playingAnimation /\ keys' = {})
    => \/ currentFrame' = currentFrame
       \/ /\ currentFrame' = (currentFrame + 1) % poisson_frame_count
          /\ FrameShownNext(currentFrame')

\* C17: for frame_count >= 2 with all durations >= 1, if ticks keep occurring
\* and from some point on the mode is Playing with no further button edge,
\* every frame index is the current, rendered frame infinitely often, the
\* frames following each other in cyclic order.
C17_EveryFrameRecurs ==
    /\ \A i \in 0 .. (MaxFrames - 1) : (<>[]Quiet) => []<>CurrentAndShown(i)
    /\ [][C17_CyclicStep]_vars

\* the last frame of the store reached from frame 0 through edge-free ticks
C17_Witness ==
    /\ poisson_frame_count >= 2 /\ PositiveDurations /\ Quiet
    /\ currentFrame = poisson_frame_count - 1 /\ FrameShown(currentFrame)
    /\ sinceRestart >= poisson_frame_count - 1

=============================================================================
